---- MODULE Spec2Model ----
(***************************************************************************)
(* Model of src/src/index.js: the claim retry loop and the monitor/sweep   *)
(* loop of main(), the fee-adaptive submitter sendWithDynamicGas, the      *)
(* token sweep transferAllToken and the native sweep                       *)
(* transferAllNativeMinusGas.  One action per await point of the program;  *)
(* the ledger node (balances, fee data, gas estimates, settlement status)  *)
(* is the environment.                                                     *)
(***************************************************************************)
EXTENDS Integers, FiniteSets, Sequences, TLC

\* ---------------------------------------------------------------- bounds
MaxFee == 5
MaxGas == 2
MaxBal == 1
BigBal == 21001
MaxTok == 2
MaxAttempts == 2
MaxPolls == 2

\* ------------------------------------------------------ program constants
\* a null / absent field (ethers FeeData fields are bigint | null)
NULL == -1
\* gasLimit = 21000n when estimateGas throws
FALLBACK_GAS == 21000
\* wait(5000)
WAIT_MS == 5000
\* txReq.type = 2
TYPE_EIP1559 == 2
\* receipt.status !== 1
STATUS_OK == 1
\* process.exit(1) of main().catch
EXIT_FAILURE == 1

CLAIM_CONTRACT == "0x87bAa1694381aE3eCaE2660d97fe60404080Eb64"
TOKEN_CONTRACT == "0x1789e0043623282D5DCc7F213d703C6D8BAfBB04"
RECEIVER == "0x94f9ae4c07d32d0ad9f21f8f20f4551523e77169"
REQUIRED_ENVS == {"RPC_URL", "PRIVATE_KEY"}

\* ------------------------------------------------------- input domains
FeeVals == {NULL, 0, 1, MaxFee}
FeeSnapshots == [maxFeePerGas : FeeVals, maxPriorityFeePerGas : FeeVals, gasPrice : FeeVals]
GasEstimates == 1..MaxGas
Balances == (0..MaxBal) \cup {BigBal}
TokenBalances == 0..MaxTok
EnvVals == {"unset", "blank", "set"}
Configs == [RPC_URL : EnvVals, PRIVATE_KEY : EnvVals \cup {"malformed"}]

\* ------------------------------------------------------ pure functions
\* JavaScript truthiness of a bigint | null value: null and 0n are falsy
Truthy(x) == x # NULL /\ x # 0

\* (x * 120n) / 100n, BigInt arithmetic: truncating, no overflow
Escalate(x) == (x * 120) \div 100

\* feeData.maxFeePerGas && feeData.maxPriorityFeePerGas
HasPriorityFees(fd) == Truthy(fd.maxFeePerGas) /\ Truthy(fd.maxPriorityFeePerGas)

\* else if (feeData.gasPrice)
HasGasPrice(fd) == Truthy(fd.gasPrice)

NoFee == [maxFeePerGas |-> NULL, maxPriorityFeePerGas |-> NULL, gasPrice |-> NULL]

NoTx == [kind |-> "none", to |-> "none", recipient |-> "none", value |-> NULL,
         maxFeePerGas |-> NULL,
         maxPriorityFeePerGas |-> NULL, gasPrice |-> NULL, type |-> NULL]

\* the overrides object built by sendWithDynamicGas
FeeOverrides(fd) ==
    IF HasPriorityFees(fd)
    THEN [maxFeePerGas |-> Escalate(fd.maxFeePerGas),
          maxPriorityFeePerGas |-> Escalate(fd.maxPriorityFeePerGas),
          gasPrice |-> NULL]
    ELSE IF HasGasPrice(fd)
         THEN [maxFeePerGas |-> NULL, maxPriorityFeePerGas |-> NULL,
               gasPrice |-> Escalate(fd.gasPrice)]
         ELSE NoFee

\* the call txFunc(overrides): claim.claim(ov) or erc20.transfer(to, bal, ov)
SendRequest(k, amount, fd) ==
    [kind |-> k,
     to |-> IF k = "claim" THEN CLAIM_CONTRACT ELSE TOKEN_CONTRACT,
     recipient |-> IF k = "claim" THEN "none" ELSE RECEIVER,
     value |-> IF k = "claim" THEN NULL ELSE amount,
     maxFeePerGas |-> FeeOverrides(fd).maxFeePerGas,
     maxPriorityFeePerGas |-> FeeOverrides(fd).maxPriorityFeePerGas,
     gasPrice |-> FeeOverrides(fd).gasPrice,
     type |-> NULL]

\* the fee reserve of transferAllNativeMinusGas; NULL stands for the throw
NativeFee(g, fd) ==
    IF HasPriorityFees(fd) THEN g * Escalate(fd.maxFeePerGas)
    ELSE IF HasGasPrice(fd) THEN g * Escalate(fd.gasPrice)
    ELSE NULL

\* (variant: balance < fee)
NativeInsufficient_Strict(b, fee) == b < fee
\* if (balance <= fee) return null
NativeInsufficient(b, fee) == b <= fee

\* const value = balance - fee
NativeValue(b, fee) == b - fee

\* (variant: the request offers the price of the snapshot as it was read)
NativeTxReq_Raw(v, fd) ==
    [kind |-> "native", to |-> RECEIVER, recipient |-> RECEIVER, value |-> v,
     maxFeePerGas |-> IF HasPriorityFees(fd) THEN fd.maxFeePerGas ELSE NULL,
     maxPriorityFeePerGas |-> IF HasPriorityFees(fd) THEN fd.maxPriorityFeePerGas ELSE NULL,
     gasPrice |-> IF HasPriorityFees(fd) THEN NULL ELSE fd.gasPrice,
     type |-> IF HasPriorityFees(fd) THEN TYPE_EIP1559 ELSE NULL]
\* txReq of transferAllNativeMinusGas
NativeTxReq(v, fd) ==
    IF HasPriorityFees(fd)
    THEN [kind |-> "native", to |-> RECEIVER, recipient |-> RECEIVER, value |-> v,
          maxFeePerGas |-> Escalate(fd.maxFeePerGas),
          maxPriorityFeePerGas |-> Escalate(fd.maxPriorityFeePerGas),
          gasPrice |-> NULL, type |-> TYPE_EIP1559]
    ELSE IF HasGasPrice(fd)
         THEN [kind |-> "native", to |-> RECEIVER, recipient |-> RECEIVER, value |-> v,
               maxFeePerGas |-> NULL, maxPriorityFeePerGas |-> NULL,
               gasPrice |-> Escalate(fd.gasPrice), type |-> NULL]
         ELSE [kind |-> "native", to |-> RECEIVER, recipient |-> RECEIVER, value |-> v,
               maxFeePerGas |-> NULL, maxPriorityFeePerGas |-> NULL,
               gasPrice |-> NULL, type |-> NULL]

\* (variant: the amount is the balance less one unit)
TokenAmount_LessOne(polled, reread) == reread - 1
\* (variant: the amount is the balance seen by the poll of the loop)
TokenAmount_Polled(polled, reread) == polled
\* erc20.transfer(to, bal, ov): the amount is bal, the balance read by
\* transferAllToken itself, not tokenBal of main
TokenAmount(polled, reread) == reread

\* (variant: any receipt counts as success)
StatusSucceeded_Any(st) == st # NULL
\* receipt.status !== 1 throws: only status 1 is a success
StatusSucceeded(st) == st = STATUS_OK

\* (variant: a failed estimation leaves no gas limit)
EstimateFallback_None(ok, g) == IF ok THEN g ELSE 0
\* try { gasLimit = await provider.estimateGas(...) } catch { gasLimit = 21000n }
EstimateFallback(ok, g) == IF ok THEN g ELSE FALLBACK_GAS

\* ethers.isAddress: the three address constants of the source are well
\* formed (the two contract addresses carry a correct EIP-55 checksum)
IsAddress(a) == a \in {CLAIM_CONTRACT, TOKEN_CONTRACT, RECEIVER}

\* (variant: assertEnv accepts everything)
EnvMissing_None(c) == {}
\* assertEnv: !process.env[k] || String(process.env[k]).trim() === ''
EnvMissing(c) == {k \in REQUIRED_ENVS : c[k] \in {"unset", "blank"}}

\* (variant: any balance that was read starts a sweep)
SweepTriggered_Any(b) == b # NULL
\* if (tokenBal && tokenBal > 0n)
SweepTriggered(b) == Truthy(b) /\ b > 0

\* ------------------------------------------------------- control flow
\* (variant: the catch retries without awaiting wait)
ClaimFailedPc_NoWait == "c_poll"
\* catch of the claim loop: log, then await wait(5000)
ClaimFailedPc == "c_wait"
\* break out of the claim loop into the monitor loop
ClaimSucceededPc == "m_poll"
\* after wait(5000): the opportunistic balance check
AfterWaitPc == "c_poll"
\* head of the loop of the given phase
LoopHeadPc(ph) == IF ph = "claim" THEN "c_claim" ELSE "m_poll"
\* (variant: an error of the monitor iteration ends the loop)
SweepErrorPc_Abort(ph) == IF ph = "claim" THEN "c_claim" ELSE "done"
\* (variant: a failed step of a pass falls through to the native step)
SweepErrorPc_Continue(ph) == "n_read"
\* (variant: a failed step of a monitor pass is followed by the native step)
SweepErrorPc_RetryNative(ph) == IF ph = "claim" THEN "c_claim" ELSE "n_read"
\* (variant: an error of the opportunistic sweep leaves the claim loop)
SweepErrorPc_ToMonitor(ph) == "m_poll"
\* catch around the check-or-sweep step: log and continue the loop
SweepErrorPc(ph) == LoopHeadPc(ph)
\* (variant: the break of the monitor loop is missing)
SweepDonePc_NoBreak(ph) == LoopHeadPc(ph)
\* the sweep pass returned: claim phase continues, monitor phase breaks
SweepDonePc(ph) == IF ph = "claim" THEN "c_claim" ELSE "done"
\* (variant: the submitter does not await tx.wait() before sending again)
AfterSendPc_NoAwait == "s_send"
\* after the broadcast the submitter awaits tx.wait()
AfterSendPc == "s_wait"
AfterNativeSendPc == "n_wait"
\* transferAllToken returned; transferAllNativeMinusGas is called next
AfterTokenPc == "n_read"

VARIABLES
    cfg,            \* process.env
    pc,             \* position of main (and of the function it awaits)
    phase,          \* "claim" (first loop) or "monitor" (second loop)
    chainToken,     \* ledger: token balance of the holder
    chainNative,    \* ledger: native balance of the holder
    tokenBal,       \* main: const tokenBal
    bal,            \* transferAllToken: const bal
    balance,        \* transferAllNativeMinusGas: balance
    feeData,        \* feeData of the running submitter / native sweep
    gasLimit,       \* transferAllNativeMinusGas: gasLimit
    txReq,          \* the request handed to the signer
    kind,           \* what the running sendWithDynamicGas call submits
    callSent,       \* broadcasts made by the running submit call
    estimateFailed, \* transferAllNativeMinusGas: estimateGas threw
    fetched,        \* what the running submission attempt has fetched itself
    receipt,        \* status of the receipt the last step received (NULL if none)
    exitCode,       \* code passed to process.exit (NULL while the process runs)
    inflight,       \* transactions broadcast and not yet settled or abandoned
    err,            \* error raised by the last step ("none" if none)
    tokRes,         \* result of the token step of the current pass
    natRes,         \* result of the native step of the current pass
    claimAttempts,  \* calls of claimTokens
    waits,          \* calls of wait(5000)
    waitedMs,       \* total delay requested from wait
    claimOk,        \* claimTokens calls that returned
    monPolls,       \* getTokenBalance calls of the monitor loop
    monZero,        \* of these, those that returned 0
    monPasses,      \* sweep passes started by the monitor loop
    monErr          \* an error was caught in the monitor loop

env == <<chainToken, chainNative>>
locals == <<tokenBal, bal, balance, feeData, gasLimit, txReq, kind, callSent,
            estimateFailed, fetched>>
pass == <<tokRes, natRes>>
claimCtrs == <<claimAttempts, waits, waitedMs, claimOk>>
monCtrs == <<monPolls, monZero, monPasses, monErr>>
vars == <<cfg, pc, phase, chainToken, chainNative, tokenBal, bal, balance, feeData,
          gasLimit, txReq, kind, callSent, estimateFailed, fetched, receipt,
          exitCode, inflight, err, tokRes, natRes,
          claimAttempts, waits, waitedMs, claimOk, monPolls, monZero, monPasses, monErr>>

Init ==
    /\ cfg \in Configs
    /\ pc = "start"
    /\ phase = "claim"
    /\ chainToken \in TokenBalances
    /\ chainNative \in Balances
    /\ tokenBal = NULL /\ bal = NULL /\ balance = NULL
    /\ feeData = NoFee /\ gasLimit = NULL /\ txReq = NoTx
    /\ kind = "none" /\ callSent = 0
    /\ estimateFailed = FALSE /\ fetched = {}
    /\ receipt = NULL
    /\ exitCode = NULL
    /\ inflight = 0
    /\ err = "none"
    /\ tokRes = "none" /\ natRes = "none"
    /\ claimAttempts = 0 /\ waits = 0 /\ waitedMs = 0 /\ claimOk = 0
    /\ monPolls = 0 /\ monZero = 0 /\ monPasses = 0 /\ monErr = FALSE

\* the locals of a function die when it returns
ClearLocals ==
    /\ tokenBal' = NULL /\ bal' = NULL /\ balance' = NULL
    /\ feeData' = NoFee /\ gasLimit' = NULL /\ txReq' = NoTx
    /\ kind' = "none" /\ callSent' = 0
    /\ estimateFailed' = FALSE /\ fetched' = {}

\* ------------------------------------------------------------- main()
\* assertEnv passes, the wallet is built: enter the claim loop
StartOk ==
    /\ pc = "start"
    /\ EnvMissing(cfg) = {}
    /\ cfg.PRIVATE_KEY # "malformed"
    /\ IsAddress(CLAIM_CONTRACT) /\ IsAddress(TOKEN_CONTRACT)
    /\ pc' = "c_claim"
    /\ UNCHANGED <<cfg, exitCode, phase, env, locals, receipt, inflight, err, pass, claimCtrs, monCtrs>>

\* assertEnv or new ethers.Wallet throws: main().catch logs and exits with 1
StartFatal ==
    /\ pc = "start"
    /\ \/ EnvMissing(cfg) # {}
       \/ cfg.PRIVATE_KEY = "malformed"
       \/ ~(IsAddress(CLAIM_CONTRACT) /\ IsAddress(TOKEN_CONTRACT))
    /\ pc' = "fatal"
    /\ err' = "Config"
    /\ exitCode' = EXIT_FAILURE
    /\ UNCHANGED <<cfg, phase, env, locals, receipt, inflight, pass, claimCtrs, monCtrs>>

\* await claimTokens(wallet): enters sendWithDynamicGas for the claim call
ClaimAttempt ==
    /\ pc = "c_claim"
    /\ claimAttempts < MaxAttempts
    /\ claimAttempts' = claimAttempts + 1
    /\ kind' = "claim"
    /\ callSent' = 0
    /\ pc' = "s_fee"
    /\ err' = "none"
    /\ receipt' = NULL
    /\ UNCHANGED <<cfg, exitCode, phase, env, tokenBal, bal, balance, feeData, gasLimit, txReq,
                   estimateFailed, fetched, inflight, pass, waits, waitedMs, claimOk,
                   monCtrs>>

\* sendWithDynamicGas throws: to the catch of the caller
SubmitterThrows(e) ==
    /\ err' = e
    /\ ClearLocals
    /\ IF kind = "claim"
       THEN /\ pc' = ClaimFailedPc
            /\ UNCHANGED <<pass, monCtrs>>
       ELSE /\ pc' = SweepErrorPc(phase)
            /\ tokRes' = "err"
            /\ monErr' = (monErr \/ phase = "monitor")
            /\ UNCHANGED <<natRes, monPolls, monZero, monPasses>>
    /\ UNCHANGED <<cfg, exitCode, phase, env, claimCtrs>>

\* sendWithDynamicGas returns the receipt
SubmitterReturns ==
    /\ err' = "none"
    /\ ClearLocals
    /\ IF kind = "claim"
       THEN /\ pc' = ClaimSucceededPc
            /\ phase' = "monitor"
            /\ claimOk' = claimOk + 1
            /\ UNCHANGED <<pass, claimAttempts, waits, waitedMs>>
       ELSE /\ pc' = AfterTokenPc
            /\ tokRes' = "ok"
            /\ UNCHANGED <<phase, natRes, claimCtrs>>
    /\ UNCHANGED <<cfg, exitCode, env, monCtrs>>

\* (variant: the submitter prices the request with the snapshot it holds)
SendFetchFee_Skip ==
    /\ pc = "s_fee"
    /\ txReq' = SendRequest(kind, TokenAmount(tokenBal, bal), feeData)
    /\ pc' = "s_send"
    /\ err' = "none"
    /\ receipt' = NULL
    /\ UNCHANGED <<cfg, exitCode, phase, env, tokenBal, bal, balance, feeData, gasLimit,
                   kind, callSent, estimateFailed, fetched, inflight, pass, claimCtrs,
                   monCtrs>>
\* const feeData = await provider.getFeeData(); build overrides
SendFetchFee ==
    /\ pc = "s_fee"
    /\ \/ \E fd \in FeeSnapshots :
            /\ feeData' = fd
            /\ fetched' = {"fee"}
            /\ txReq' = SendRequest(kind, TokenAmount(tokenBal, bal), fd)
            /\ pc' = "s_send"
            /\ err' = "none"
            /\ UNCHANGED <<cfg, exitCode, phase, env, tokenBal, bal, balance, gasLimit, kind,
                           callSent, estimateFailed, pass, claimCtrs, monCtrs>>
       \/ SubmitterThrows("FeeFetch")
    /\ receipt' = NULL
    /\ UNCHANGED inflight

\* const tx = await txFunc(overrides)
SendSubmit ==
    /\ pc = "s_send"
    /\ \/ /\ inflight' = inflight + 1
          /\ callSent' = callSent + 1
          /\ pc' = AfterSendPc
          /\ err' = "none"
          /\ UNCHANGED <<cfg, exitCode, phase, env, tokenBal, bal, balance, feeData, gasLimit,
                         txReq, kind, estimateFailed, fetched, pass, claimCtrs, monCtrs>>
       \/ /\ SubmitterThrows("SubmissionFailed")
          /\ UNCHANGED inflight
    /\ receipt' = NULL

\* const receipt = await tx.wait(); if (receipt.status !== 1) throw
SendSettle ==
    /\ pc = "s_wait"
    /\ inflight' = inflight - 1
    /\ \/ \E status \in {0, 1} :
            /\ receipt' = status
            /\ IF StatusSucceeded(status) THEN SubmitterReturns
               ELSE SubmitterThrows("SettlementFailed")
       \/ /\ receipt' = NULL
          /\ SubmitterThrows("SettlementWait")

\* await wait(5000)
Wait ==
    /\ pc = "c_wait"
    /\ waits' = waits + 1
    /\ waitedMs' = waitedMs + WAIT_MS
    /\ pc' = AfterWaitPc
    /\ err' = "none"
    /\ receipt' = NULL
    /\ UNCHANGED <<cfg, exitCode, phase, env, locals, inflight, pass, claimAttempts, claimOk, monCtrs>>

\* the catch around the check-or-sweep step of either loop
SweepThrows(e) ==
    /\ err' = e
    /\ ClearLocals
    /\ pc' = SweepErrorPc(phase)
    /\ monErr' = (monErr \/ phase = "monitor")
    /\ UNCHANGED <<cfg, exitCode, phase, env, claimCtrs>>

\* const tokenBal = await getTokenBalance(...); if (tokenBal && tokenBal > 0n)
Poll ==
    /\ pc \in {"c_poll", "m_poll"}
    /\ phase = "monitor" => monPolls < MaxPolls
    /\ monPolls' = IF phase = "monitor" THEN monPolls + 1 ELSE monPolls
    /\ \/ /\ err' = "none"
          /\ monZero' = IF phase = "monitor" /\ chainToken = 0 THEN monZero + 1 ELSE monZero
          /\ IF SweepTriggered(chainToken)
             THEN /\ pc' = "t_meta"
                  /\ tokenBal' = chainToken
                  /\ tokRes' = "none" /\ natRes' = "none"
                  /\ monPasses' = IF phase = "monitor" THEN monPasses + 1 ELSE monPasses
                  /\ UNCHANGED <<bal, balance, feeData, gasLimit, txReq, kind, callSent,
                                 estimateFailed, fetched>>
             ELSE /\ pc' = LoopHeadPc(phase)
                  /\ tokenBal' = NULL
                  /\ UNCHANGED <<pass, monPasses, bal, balance, feeData, gasLimit, txReq,
                                 kind, callSent, estimateFailed, fetched>>
          /\ UNCHANGED <<cfg, exitCode, phase, env, claimCtrs, monErr>>
       \/ /\ SweepThrows("BalanceRead")
          /\ UNCHANGED <<pass, monZero, monPasses>>
    /\ receipt' = NULL
    /\ UNCHANGED inflight

\* transferAllToken: await Promise.all([erc20.decimals(), erc20.symbol()])
TokenMeta ==
    /\ pc = "t_meta"
    /\ \/ /\ pc' = "t_bal"
          /\ err' = "none"
          /\ UNCHANGED <<cfg, exitCode, phase, env, locals, pass, claimCtrs, monCtrs>>
       \/ /\ SweepThrows("MetaRead")
          /\ tokRes' = "err"
          /\ UNCHANGED <<natRes, monPolls, monZero, monPasses>>
    /\ receipt' = NULL
    /\ UNCHANGED inflight

\* transferAllToken: const bal = await erc20.balanceOf(owner); if (bal === 0n) return null
TokenReadBalance ==
    /\ pc = "t_bal"
    /\ \/ /\ bal' = chainToken
          /\ err' = "none"
          /\ IF chainToken = 0
             THEN /\ tokRes' = "nothing"
                  /\ pc' = AfterTokenPc
                  /\ UNCHANGED <<kind, callSent>>
             ELSE /\ kind' = "token"
                  /\ callSent' = 0
                  /\ pc' = "s_fee"
                  /\ UNCHANGED tokRes
          /\ UNCHANGED <<cfg, exitCode, phase, env, tokenBal, balance, feeData, gasLimit, txReq,
                         estimateFailed, fetched, natRes, claimCtrs, monCtrs>>
       \/ /\ SweepThrows("BalanceRead")
          /\ tokRes' = "err"
          /\ UNCHANGED <<natRes, monPolls, monZero, monPasses>>
    /\ receipt' = NULL
    /\ UNCHANGED inflight

\* transferAllNativeMinusGas returns (null or the receipt) to the loop
NativeReturns(res) ==
    /\ natRes' = res
    /\ err' = "none"
    /\ ClearLocals
    /\ pc' = SweepDonePc(phase)
    /\ UNCHANGED <<cfg, exitCode, phase, env, tokRes, claimCtrs, monCtrs>>

\* transferAllNativeMinusGas throws: to the catch of the loop
NativeThrows(e) ==
    /\ SweepThrows(e)
    /\ natRes' = "err"
    /\ UNCHANGED <<tokRes, monPolls, monZero, monPasses>>

\* await Promise.all([provider.getBalance(address), provider.getFeeData()])
NativeRead ==
    /\ pc = "n_read"
    /\ \/ \E fd \in FeeSnapshots :
            IF chainNative = 0
            THEN NativeReturns("nothing")
            ELSE /\ balance' = chainNative
                 /\ feeData' = fd
                 /\ fetched' = {"fee"}
                 /\ callSent' = 0
                 /\ pc' = "n_gas"
                 /\ err' = "none"
                 /\ UNCHANGED <<cfg, exitCode, phase, env, tokenBal, bal, gasLimit, txReq, kind,
                                estimateFailed, pass, claimCtrs, monCtrs>>
       \/ NativeThrows("BalanceRead")
    /\ receipt' = NULL
    /\ UNCHANGED inflight

\* gasLimit = await provider.estimateGas(...), 21000n when it throws
NativeEstimate ==
    /\ pc = "n_gas"
    /\ \/ \E g \in GasEstimates :
            /\ estimateFailed' = FALSE
            /\ gasLimit' = EstimateFallback(TRUE, g)
       \/ /\ estimateFailed' = TRUE
          /\ gasLimit' = EstimateFallback(FALSE, NULL)
    /\ fetched' = fetched \cup {"gas"}
    /\ pc' = "n_plan"
    /\ err' = "none"
    /\ receipt' = NULL
    /\ UNCHANGED <<cfg, exitCode, phase, env, tokenBal, bal, balance, feeData, txReq, kind, callSent,
                   inflight, pass, claimCtrs, monCtrs>>

\* fee, the balance <= fee test, value and txReq
NativePlan ==
    /\ pc = "n_plan"
    /\ IF NativeFee(gasLimit, feeData) = NULL
       THEN NativeThrows("FeeUnavailable")
       ELSE IF NativeInsufficient(balance, NativeFee(gasLimit, feeData))
            THEN NativeReturns("nothing")
            ELSE /\ txReq' = NativeTxReq(NativeValue(balance, NativeFee(gasLimit, feeData)),
                                         feeData)
                 /\ pc' = "n_send"
                 /\ err' = "none"
                 /\ UNCHANGED <<cfg, exitCode, phase, env, tokenBal, bal, balance, feeData, gasLimit,
                                kind, callSent, estimateFailed, fetched, pass, claimCtrs,
                                monCtrs>>
    /\ receipt' = NULL
    /\ UNCHANGED inflight

\* const tx = await signer.sendTransaction(txReq)
NativeSubmit ==
    /\ pc = "n_send"
    /\ \/ /\ inflight' = inflight + 1
          /\ callSent' = callSent + 1
          /\ pc' = AfterNativeSendPc
          /\ err' = "none"
          /\ UNCHANGED <<cfg, exitCode, phase, env, tokenBal, bal, balance, feeData, gasLimit,
                         txReq, kind, estimateFailed, fetched, pass, claimCtrs, monCtrs>>
       \/ /\ NativeThrows("SubmissionFailed")
          /\ UNCHANGED inflight
    /\ receipt' = NULL

\* const receipt = await tx.wait(); if (receipt.status !== 1) throw
NativeSettle ==
    /\ pc = "n_wait"
    /\ inflight' = inflight - 1
    /\ \/ \E status \in {0, 1} :
            /\ receipt' = status
            /\ IF StatusSucceeded(status) THEN NativeReturns("ok")
               ELSE NativeThrows("SettlementFailed")
       \/ /\ receipt' = NULL
          /\ NativeThrows("SettlementWait")

\* the ledger: deposits to and withdrawals from the holder, at any time
LedgerChange ==
    /\ pc \notin {"start", "done", "fatal"}
    /\ \/ \E t \in TokenBalances : chainToken' = t /\ t # chainToken /\ UNCHANGED chainNative
       \/ \E n \in Balances : chainNative' = n /\ n # chainNative /\ UNCHANGED chainToken
    /\ UNCHANGED <<cfg, exitCode, pc, phase, locals, receipt, inflight, err, pass, claimCtrs, monCtrs>>

Next ==
    \/ StartOk
    \/ StartFatal
    \/ ClaimAttempt
    \/ SendFetchFee
    \/ SendSubmit
    \/ SendSettle
    \/ Wait
    \/ Poll
    \/ TokenMeta
    \/ TokenReadBalance
    \/ NativeRead
    \/ NativeEstimate
    \/ NativePlan
    \/ NativeSubmit
    \/ NativeSettle
    \/ LedgerChange

Spec == Init /\ [][Next]_vars

\* ------------------------------------------------------------ claims
\* a step of the program (not of the ledger) leaving position p
StepFrom(p) == pc = p /\ (pc' # pc \/ monPolls' # monPolls \/ err' # err)

\* claim attempts that have ended in the catch of the claim loop
ClaimFailures == claimAttempts - claimOk - (IF kind = "claim" THEN 1 ELSE 0)

\* the counts of the claim loop at every position of the program
C1_StateInv ==
    /\ waitedMs = waits * 5000
    /\ claimOk \in {0, 1}
    /\ waits = IF pc = "c_wait" THEN ClaimFailures - 1 ELSE ClaimFailures
    /\ (phase = "monitor" \/ pc \in {"m_poll", "done"}) <=> claimOk = 1
    /\ claimOk = 1 => /\ claimAttempts = waits + 1
                      /\ kind # "claim"
                      /\ pc \notin {"c_claim", "c_wait", "c_poll"}

\* C1 (ClaimRetryLoop): after k failed claim attempts and a success the loop
\* has waited exactly k times, 5000 ms each, one wait after each failure and
\* none after the success; it is then in the monitor phase, claimTokens is
\* never called again, and the monitor phase is entered only by a claim that
\* settled successfully.
C1_ClaimRetryLoop ==
    /\ []C1_StateInv
    /\ [][claimOk = 1 => /\ claimAttempts' = claimAttempts
                         /\ waits' = waits
                         /\ claimOk' = 1]_vars

C1_Witness == phase = "monitor" /\ pc = "m_poll" /\ waits = 1 /\ claimAttempts = 2

\* C2 (MonitorSweepLoop): while no error has been caught in the monitor loop,
\* n polls returning 0 followed by a positive poll make n+1 polls, the pass is
\* started by that (n+1)-th poll and by no other, and the loop does not poll
\* again: when the pass returns (native moved or nothing to move) the loop is
\* done with n+1 polls and exactly one pass.
C2_MonitorSweepLoop ==
    /\ (phase = "monitor" /\ ~monErr) =>
          /\ monPolls \in {monZero, monZero + 1}
          /\ monPasses = monPolls - monZero
          /\ monPasses = 1 => pc # "m_poll"
          /\ monPasses = 0 => pc = "m_poll"
    /\ (pc = "done" /\ ~monErr) =>
          /\ monPolls = monZero + 1
          /\ monPasses = 1
          /\ natRes \in {"ok", "nothing"}

C2_Witness ==
    pc = "done" /\ ~monErr /\ monZero = 1 /\ monPolls = 2 /\ natRes = "nothing"

\* outstanding transactions at every position of the program
C3_StateInv ==
    /\ inflight \in {0, 1}
    /\ inflight = 1 <=> pc \in {"s_wait", "n_wait"}
    /\ pc \in {"s_wait", "n_wait"} => callSent = 1
    /\ callSent <= 1

\* C3 (serialized submissions): at most one transaction is broadcast and not
\* yet settled or abandoned; one is outstanding exactly while a submitter
\* awaits its settlement, that call has broadcast exactly one transaction,
\* and a broadcast happens only when none is outstanding.
C3_Serialized ==
    /\ []C3_StateInv
    /\ [][inflight' > inflight => inflight = 0 /\ inflight' = 1 /\ callSent' = 1]_vars

C3_Witness == pc = "n_wait" /\ inflight = 1 /\ tokRes = "ok" /\ phase = "monitor"

\* a reserve no priced snapshot with an estimated gas limit exceeds
MaxReserve == MaxGas * Escalate(MaxFee)

\* C4 as stated: a balance check that finds a spendable balance on the holder,
\* of the token or of the native currency alone, starts a sweep.
C4_SweepOnAnyBalance ==
    [][((StepFrom("c_poll") \/ StepFrom("m_poll")) /\ err' = "none"
          /\ (chainToken > 0 \/ chainNative > MaxReserve))
       => pc' = "t_meta"]_vars

\* C4 as amended: a sweep pass is started by a balance check exactly when the
\* check returns a positive token balance; the native balance plays no part.
C4_SweepOnTokenBalance ==
    /\ [][(StepFrom("c_poll") \/ StepFrom("m_poll"))
            => (pc' = "t_meta" <=> (err' = "none" /\ chainToken > 0))]_vars
    /\ [][(pc' = "t_meta" /\ pc # "t_meta") => pc \in {"c_poll", "m_poll"}]_vars

C4_Witness ==
    pc = "m_poll" /\ monZero = 1 /\ chainToken = 0 /\ chainNative = BigBal /\ err = "none"
\* C5 (MonitorSweepLoop error handling): a step of the monitor phase that
\* raises an error leaves the loop polling, never done; the loop is done only
\* after a pass whose token step and native step both returned without error.
C5_MonitorErrorsSwallowed ==
    /\ [](pc = "done" => /\ err = "none"
                         /\ tokRes \in {"ok", "nothing"}
                         /\ natRes \in {"ok", "nothing"})
    /\ [][(phase = "monitor" /\ err' # "none" /\ (pc' # pc \/ err' # err \/ monPolls' # monPolls))
          => (pc' = "m_poll" /\ phase' = "monitor")]_vars

C5_Witness ==
    pc = "m_poll" /\ phase = "monitor" /\ err = "SettlementFailed"
       /\ tokRes = "ok" /\ natRes = "err"

\* positions of the opportunistic balance check and sweep pass
InOpportunisticSweep ==
    /\ phase = "claim"
    /\ \/ pc \in {"c_poll", "t_meta", "t_bal", "n_read", "n_gas", "n_plan", "n_send", "n_wait"}
       \/ (pc \in {"s_fee", "s_send", "s_wait"} /\ kind = "token")

\* C6 (ClaimRetryLoop error handling): an error raised by the opportunistic
\* balance check or sweep pass leaves the program at the head of the claim
\* loop, in the claim phase, where the next step is a claim attempt.
C6_OpportunisticErrorsSwallowed ==
    [][(InOpportunisticSweep /\ err' # "none" /\ (pc' # pc \/ err' # err))
       => (pc' = "c_claim" /\ phase' = "claim" /\ claimOk' = 0)]_vars

C6_Witness ==
    pc = "c_claim" /\ phase = "claim" /\ err = "FeeUnavailable" /\ natRes = "err"

\* neither both priority fields nor the flat price field is populated
SnapshotEmpty(fd) ==
    /\ ~(fd.maxFeePerGas # NULL /\ fd.maxPriorityFeePerGas # NULL)
    /\ fd.gasPrice = NULL

\* C7: with an empty fee snapshot no transaction (claim, token transfer or
\* native transfer) gets as far as being broadcast.
C7_FeeUnavailableBeforeBroadcast ==
    (pc \in {"s_wait", "n_wait"}) => ~SnapshotEmpty(feeData)

\* a request has been built from feeData and is being or has been submitted
RequestBuilt == pc \in {"s_send", "s_wait", "n_send", "n_wait"}

\* C8: a snapshot with both priority fields populated with a and b (zero
\* included) yields a priority-style request with floor(a*120/100) and
\* floor(b*120/100) and no flat price.
C8_PriorityOffer ==
    (RequestBuilt /\ feeData.maxFeePerGas # NULL /\ feeData.maxPriorityFeePerGas # NULL)
    => /\ txReq.maxFeePerGas = (feeData.maxFeePerGas * 120) \div 100
       /\ txReq.maxPriorityFeePerGas = (feeData.maxPriorityFeePerGas * 120) \div 100
       /\ txReq.gasPrice = NULL

\* C9: a flat-price snapshot with value p (zero included) yields a flat-style
\* request with floor(p*120/100) and no priority fields.
C9_FlatOffer ==
    (RequestBuilt /\ feeData.maxFeePerGas = NULL /\ feeData.maxPriorityFeePerGas = NULL
       /\ feeData.gasPrice # NULL)
    => /\ txReq.gasPrice = (feeData.gasPrice * 120) \div 100
       /\ txReq.maxFeePerGas = NULL
       /\ txReq.maxPriorityFeePerGas = NULL

\* the per-unit price of the offer: the escalated max fee of a priority-style
\* offer, otherwise the escalated flat price
OfferPrice(fd) ==
    IF HasPriorityFees(fd) THEN (fd.maxFeePerGas * 120) \div 100
    ELSE (fd.gasPrice * 120) \div 100

\* C10 (native sweep): with reserve = gasLimit * OfferPrice, the sweep returns
\* nothing-to-sweep without a broadcast when balance <= reserve (a zero
\* balance included), and otherwise hands the signer one transfer of
\* balance - reserve to RECEIVER, which is the only one it broadcasts.
C10_NativeSweep ==
    /\ [][(StepFrom("n_plan") /\ (HasPriorityFees(feeData) \/ HasGasPrice(feeData)))
          => IF balance <= gasLimit * OfferPrice(feeData)
             THEN natRes' = "nothing" /\ inflight' = 0 /\ pc' = SweepDonePc(phase)
             ELSE /\ pc' = "n_send"
                  /\ txReq'.kind = "native"
                  /\ txReq'.to = RECEIVER
                  /\ txReq'.value = balance - gasLimit * OfferPrice(feeData)]_vars
    /\ [][(StepFrom("n_read") /\ err' = "none" /\ chainNative = 0)
          => natRes' = "nothing" /\ inflight' = 0 /\ pc' = SweepDonePc(phase)]_vars
    /\ [](pc \in {"n_send", "n_wait"} =>
            /\ balance > gasLimit * OfferPrice(feeData)
            /\ txReq.value = balance - gasLimit * OfferPrice(feeData)
            /\ txReq.to = RECEIVER
            /\ callSent = (IF pc = "n_wait" THEN 1 ELSE 0))

C10_Witness ==
    pc = "n_wait" /\ balance = BigBal /\ gasLimit = MaxGas
       /\ txReq.maxFeePerGas = Escalate(MaxFee) /\ txReq.value = BigBal - MaxReserve

\* C11 (token sweep): when transferAllToken reads a zero balance it returns
\* nothing-to-sweep and broadcasts nothing; when it reads a positive balance
\* the transfer it submits is to RECEIVER, on the token contract, for exactly
\* that balance.
C11_TokenSweep ==
    /\ [][(StepFrom("t_bal") /\ err' = "none")
          => IF chainToken = 0
             THEN /\ tokRes' = "nothing"
                  /\ pc' = "n_read"
                  /\ inflight' = 0 /\ callSent' = 0
             ELSE /\ pc' = "s_fee"
                  /\ kind' = "token"
                  /\ bal' = chainToken]_vars
    /\ []((kind = "token" /\ pc \in {"s_send", "s_wait"})
          => /\ bal > 0
             /\ txReq.kind = "token"
             /\ txReq.to = TOKEN_CONTRACT
             /\ txReq.recipient = RECEIVER
             /\ txReq.value = bal)

C11_Witness ==
    pc = "s_wait" /\ kind = "token" /\ bal = MaxTok /\ txReq.value = MaxTok /\ inflight = 1

\* C12 (settlement status): a submitter returns normally exactly when the
\* receipt it awaited carries status 1; with any other receipt it throws, and
\* a claim whose receipt is not a success leaves the loop in the claim phase
\* at its wait, from where it polls and attempts the claim again.
C12_SettlementStatus ==
    /\ [](receipt # NULL => (err = "none" <=> receipt = STATUS_OK))
    /\ [][(pc \in {"s_wait", "n_wait"} /\ pc' # pc)
          => /\ (err' = "none" <=> receipt' = STATUS_OK)
             /\ (kind = "token" => (tokRes' = "ok" <=> receipt' = STATUS_OK))
             /\ (pc = "n_wait" => (natRes' = "ok" <=> receipt' = STATUS_OK))
             /\ (kind = "claim" /\ receipt' # STATUS_OK)
                => (pc' = "c_wait" /\ phase' = "claim" /\ claimOk' = 0)
             /\ (kind = "claim" /\ receipt' = STATUS_OK)
                => (pc' = "m_poll" /\ phase' = "monitor")]_vars
    /\ [][(pc = "c_wait" /\ pc' # pc) => (pc' = "c_poll" /\ phase' = "claim")]_vars

C12_Witness ==
    pc = "c_wait" /\ phase = "claim" /\ receipt = 0 /\ err = "SettlementFailed"

\* C13 (estimation fallback): when estimateGas throws, the native sweep goes
\* on to price the transfer; its gas limit is exactly 21000 and the reserve
\* it compares with the balance and subtracts from it is 21000 * price.
C13_EstimateFallback ==
    /\ [][StepFrom("n_gas")
          => /\ pc' = "n_plan"
             /\ err' = "none"
             /\ natRes' = natRes
             /\ (estimateFailed' => gasLimit' = 21000)]_vars
    /\ []((pc \in {"n_plan", "n_send", "n_wait"} /\ estimateFailed) => gasLimit = 21000)
    /\ [][(StepFrom("n_plan") /\ estimateFailed
             /\ (HasPriorityFees(feeData) \/ HasGasPrice(feeData)))
          => (pc' = "n_send" <=> balance > 21000 * OfferPrice(feeData))]_vars
    /\ []((pc \in {"n_send", "n_wait"} /\ estimateFailed)
          => txReq.value = balance - 21000 * OfferPrice(feeData))

C13_Witness ==
    pc = "n_wait" /\ estimateFailed /\ balance = BigBal
       /\ txReq.value = BigBal - 21000 /\ txReq.gasPrice = 1

\* a required variable is unset or blank, or a contract address is malformed
ConfigError ==
    \/ \E k \in REQUIRED_ENVS : cfg[k] \in {"unset", "blank"}
    \/ ~IsAddress(CLAIM_CONTRACT)
    \/ ~IsAddress(TOKEN_CONTRACT)

\* C14 (configuration errors): with a required variable unset or blank the
\* program never leaves its start other than by exiting with code 1; no
\* claim attempt, poll, wait or broadcast takes place, and the exit is final.
C14_ConfigFatal ==
    /\ [](ConfigError => /\ pc \in {"start", "fatal"}
                         /\ phase = "claim"
                         /\ claimAttempts = 0 /\ waits = 0 /\ monPolls = 0
                         /\ inflight = 0 /\ callSent = 0
                         /\ tokRes = "none" /\ natRes = "none")
    /\ [](pc = "fatal" <=> exitCode = 1)
    /\ [](pc = "fatal" => err = "Config")
    /\ [][(pc = "start" /\ ConfigError /\ pc' # pc) => (pc' = "fatal" /\ exitCode' = 1)]_vars
    /\ [][pc = "fatal" => pc' = "fatal"]_vars

C14_Witness ==
    pc = "fatal" /\ exitCode = 1 /\ cfg.RPC_URL = "blank" /\ cfg.PRIVATE_KEY = "set"

\* positions of transferAllNativeMinusGas
InNativeStep == pc \in {"n_read", "n_gas", "n_plan", "n_send", "n_wait"}

\* positions of transferAllToken
InTokenStep == pc \in {"t_meta", "t_bal"} \/ (pc \in {"s_fee", "s_send", "s_wait"} /\ kind = "token")

\* C15 (token before native): in a pass of either phase the native step is
\* entered only from the token step, when that step returned (transfer
\* settled with success, or nothing to sweep) and nothing is outstanding; a
\* token step that throws sends the pass to the head of the loop, and the
\* native step of that pass is never run.
C15_TokenBeforeNative ==
    /\ [](InNativeStep => tokRes \in {"ok", "nothing"})
    /\ [](tokRes = "err" => natRes = "none")
    /\ [](InTokenStep => (tokRes = "none" /\ natRes = "none"))
    /\ [][(pc' = "n_read" /\ pc # "n_read")
          => /\ InTokenStep
             /\ pc \in {"t_bal", "s_wait"}
             /\ inflight' = 0
             /\ (pc = "s_wait" => (receipt' = STATUS_OK /\ tokRes' = "ok"))
             /\ (pc = "t_bal" => (chainToken = 0 /\ tokRes' = "nothing"))]_vars
    /\ [][(InTokenStep /\ err' # "none" /\ pc' # pc)
          => (tokRes' = "err" /\ pc' = LoopHeadPc(phase) /\ natRes' = "none")]_vars
    /\ [][(inflight' > inflight /\ pc = "n_send") => tokRes \in {"ok", "nothing"}]_vars

C15_Witness ==
    pc = "n_wait" /\ phase = "claim" /\ tokRes = "ok" /\ inflight = 1

\* C16 (partial failure in the monitor loop): when the token step of a pass
\* returned and the native step throws, the loop is back at its poll and not
\* done; it leaves the poll only by a balance check that reads a positive
\* token balance, which starts a new pass, and the native step is entered
\* only from the token step of such a pass.
C16_PartialFailure ==
    /\ [][(phase = "monitor" /\ InNativeStep /\ err' # "none" /\ pc' # pc)
          => /\ pc' = "m_poll"
             /\ phase' = "monitor"
             /\ tokRes' = tokRes
             /\ natRes' = "err"]_vars
    /\ []((phase = "monitor" /\ natRes = "err") => pc = "m_poll")
    /\ [][(phase = "monitor" /\ pc = "m_poll" /\ pc' # pc)
          => /\ pc' = "t_meta"
             /\ chainToken > 0
             /\ tokenBal' = chainToken
             /\ monPasses' = monPasses + 1
             /\ tokRes' = "none" /\ natRes' = "none"]_vars
    /\ [][(phase = "monitor" /\ pc' = "n_read" /\ pc # "n_read")
          => (pc \in {"t_bal", "s_wait"} /\ tokenBal > 0)]_vars

C16_Witness ==
    pc = "m_poll" /\ phase = "monitor" /\ tokRes = "ok" /\ natRes = "err"
       /\ monPasses = 1 /\ monPolls = 2 /\ monZero = 1 /\ err = "none"

\* C17: every request submitted with both priority fields set (claim, token
\* transfer and native transfer alike) carries the two escalated fields and
\* type 2.
C17_PriorityMarked ==
    (pc \in {"s_wait", "n_wait"} /\ txReq.maxFeePerGas # NULL)
    => /\ txReq.maxFeePerGas = Escalate(feeData.maxFeePerGas)
       /\ txReq.maxPriorityFeePerGas = Escalate(feeData.maxPriorityFeePerGas)
       /\ txReq.type = 2

\* the fee fields of a request
FeeFields(tx) ==
    [maxFeePerGas |-> tx.maxFeePerGas,
     maxPriorityFeePerGas |-> tx.maxPriorityFeePerGas,
     gasPrice |-> tx.gasPrice]

\* C18 (fresh fee data): a submission attempt starts holding no snapshot, no
\* estimate and no request; every broadcast is made by an attempt that has
\* fetched a snapshot itself (a native one also its own estimate), and the
\* fee fields of the request are those derived from that snapshot.
C18_FreshFeeData ==
    /\ [](pc \in {"s_fee", "n_read", "c_claim", "c_wait", "c_poll", "m_poll", "t_meta", "t_bal"}
          => /\ fetched = {}
             /\ feeData = NoFee
             /\ gasLimit = NULL
             /\ txReq = NoTx)
    /\ [](pc \in {"s_send", "s_wait"}
          => (fetched = {"fee"} /\ FeeFields(txReq) = FeeOverrides(feeData)))
    /\ [](pc \in {"n_send", "n_wait"}
          => (fetched = {"fee", "gas"} /\ FeeFields(txReq) = FeeOverrides(feeData)))
    /\ [][inflight' > inflight
          => /\ "fee" \in fetched
             /\ (pc = "n_send" => "gas" \in fetched)]_vars
    /\ [][(inflight' < inflight) => (fetched' = {} /\ feeData' = NoFee /\ gasLimit' = NULL)]_vars

C18_Witness ==
    pc = "n_wait" /\ phase = "monitor" /\ tokRes = "ok" /\ fetched = {"fee", "gas"}
       /\ ~estimateFailed /\ gasLimit = 1 /\ feeData.gasPrice = MaxFee

\* the per-unit price placed on a request
ReqPrice(tx) == IF tx.maxFeePerGas # NULL THEN tx.maxFeePerGas ELSE tx.gasPrice

\* C19 (native sweep, implicit): every native transfer that is broadcast has
\* value > 0 and value + gasLimit * (price on the request) = the balance read
\* at the start of the sweep; the request carries a price.
C19_NativeCostWithinBalance ==
    /\ [](pc = "n_wait"
          => /\ ReqPrice(txReq) # NULL
             /\ txReq.value > 0
             /\ txReq.value + gasLimit * ReqPrice(txReq) = balance)
    /\ [][(inflight' > inflight /\ pc = "n_send")
          => /\ txReq' = txReq /\ balance' = balance /\ gasLimit' = gasLimit
             /\ txReq.value > 0
             /\ txReq.value + gasLimit * ReqPrice(txReq) = balance]_vars

C19_Witness ==
    pc = "n_wait" /\ txReq.maxFeePerGas = NULL /\ txReq.gasPrice = Escalate(MaxFee)
       /\ gasLimit = 1 /\ balance = BigBal /\ txReq.value = BigBal - Escalate(MaxFee)

\* C20 (re-read of the token balance, implicit): the token transfer is for
\* the balance transferAllToken read itself, whatever the poll had returned;
\* when that read returns zero nothing is broadcast by the token step and
\* the pass goes on to the native step, so the monitor loop can finish after
\* a pass whose token step sent nothing.
C20_TokenAmountReread ==
    /\ []((kind = "token" /\ pc \in {"s_send", "s_wait"})
          => (tokenBal > 0 /\ bal > 0 /\ txReq.value = bal))
    /\ [][(StepFrom("t_bal") /\ err' = "none")
          => /\ bal' = chainToken
             /\ tokenBal' = tokenBal
             /\ tokenBal > 0
             /\ (chainToken = 0
                 => (pc' = "n_read" /\ tokRes' = "nothing" /\ inflight' = 0 /\ kind' = "none"))]_vars
    /\ [][(pc' = "done" /\ pc # "done") => (InNativeStep /\ tokRes \in {"ok", "nothing"})]_vars

C20_Witness ==
    pc = "s_wait" /\ kind = "token" /\ tokenBal = 1 /\ bal = MaxTok /\ txReq.value = MaxTok

\* the monitor loop is done after a pass whose token step sent nothing
C20_DoneWithoutTokenTransfer == pc = "done" /\ tokRes = "nothing" /\ natRes = "ok"
====
